---- MODULE Spec2Model ----
(***************************************************************************)
(* Model of 7_ebook.py, a Streamlit page that generates an e-book for a    *)
(* target community, shows it in a Quill editor and offers it for          *)
(* download.  The script runs top to bottom on every user interaction;     *)
(* st.session_state and the widget states survive between runs.            *)
(*                                                                         *)
(* Text is modelled as a sequence of one-character strings, so that        *)
(* str.replace and string concatenation are computed character by          *)
(* character.  The long literal parts of the download template are single  *)
(* elements of such a sequence.                                            *)
(***************************************************************************)
EXTENDS Integers, Sequences, FiniteSets, TLC

VARIABLES
  has_key,          \* "GEMINI_API_KEY" is in st.secrets
  pc,               \* "start" | "halted" | "idle" | "generating"
  target_community, \* value of the text input
  session_state,    \* function from the keys set by the script to text
  quill_live,       \* the "quill_editor" widget has a state
  quill_arg,        \* the value= argument the widget was created with
  quill_val,        \* the widget's current value
  notice,           \* message shown by the latest run
  editor_shown,     \* the latest run rendered the editor and the download
  dl,               \* the download button rendered by the latest run
  provider,         \* model.generate_content for the latest user action:
                    \* "not_called" | "pending" | "ok" | "raised"
  artifact,         \* the file handed out by the latest action, if any
  last_event,       \* the user action that started the latest run
  raw,              \* response.text of the latest successful generation
  gen_name,         \* the name the latest successful generation used
  last_edit,        \* the latest content the user committed in the editor
  edited_since_gen, \* an edit was committed after the latest generation
  edited_ever,      \* an edit was committed in this session
  san_in,           \* sanitizer study: the input text
  san_once,         \* sanitizer study: the text after one application
  san_twice,        \* sanitizer study: the text after two applications
  san_n             \* sanitizer study: number of applications made

vars == <<has_key, pc, target_community, session_state, quill_live, quill_arg,
          quill_val, notice, editor_shown, dl, provider, artifact, last_event,
          raw, gen_name, last_edit, edited_since_gen, edited_ever,
          san_in, san_once, san_twice, san_n>>

appvars == <<has_key, pc, target_community, session_state, quill_live,
             quill_arg, quill_val, notice, editor_shown, dl, provider, artifact,
             last_event, raw, gen_name, last_edit, edited_since_gen,
             edited_ever>>

sanvars == <<san_in, san_once, san_twice, san_n>>

----------------------------------------------------------------------------
(* Bounds *)

MaxNameLen == 1

MaxRespFrags == 1

MaxEditLen == 1

MaxSanFrags == 3

----------------------------------------------------------------------------
(* Text helpers *)

(* The grave accent U+0060 cannot be written inside a string of a module
   that also has comments; BT is the element that stands for it. *)
BT == "bt"

FenceHtml == <<BT, BT, BT, "h", "t", "m", "l">>

Fence == <<BT, BT, BT>>

Doctype == <<"<", "!", "D", "O", "C", "T", "Y", "P", "E", " ",
             "h", "t", "m", "l", ">">>

HtmlOpen == <<"<", "h", "t", "m", "l", ">">>

HtmlClose == <<"<", "/", "h", "t", "m", "l", ">">>

BodyOpen == <<"<", "b", "o", "d", "y", ">">>

BodyClose == <<"<", "/", "b", "o", "d", "y", ">">>

RECURSIVE Concat(_)
Concat(seqs) ==
  IF seqs = <<>> THEN <<>> ELSE Head(seqs) \o Concat(Tail(seqs))

SeqsUpTo(S, n) == UNION {[1..k -> S] : k \in 0..n}

Contains(s, pat) ==
  \E i \in 1..(Len(s) - Len(pat) + 1) : SubSeq(s, i, i + Len(pat) - 1) = pat

(* str.find(old): the lowest index at which old occurs in s, 0 if none *)
Find(s, old) ==
  LET at == {i \in 1..(Len(s) - Len(old) + 1) :
               SubSeq(s, i, i + Len(old) - 1) = old}
  IN  IF at = {} THEN 0 ELSE CHOOSE i \in at : \A j \in at : i <= j

(* str.replace(old, new) for a non-empty old: the occurrences are found
   left to right, each search starting after the previous occurrence *)
RECURSIVE Replace(_, _, _)
Replace(s, old, new) ==
  LET i == Find(s, old)
  IN  IF i = 0 THEN s
      ELSE SubSeq(s, 1, i - 1) \o new
             \o Replace(SubSeq(s, i + Len(old), Len(s)), old, new)

----------------------------------------------------------------------------
(* The response clean-up of the Generate handler *)

Markers == <<FenceHtml, Fence, Doctype, HtmlOpen, HtmlClose, BodyOpen,
             BodyClose>>

SanitizeLoose(text) ==
  LET t1 == Replace(Replace(text, FenceHtml, <<>>), <<BT>>, <<>>)
      t2 == Replace(t1, Doctype, <<>>)
      t3 == Replace(Replace(t2, HtmlOpen, <<>>), HtmlClose, <<>>)
  IN  Replace(Replace(t3, BodyOpen, <<>>), BodyClose, <<>>)

Sanitize(text) ==
  LET t1 == Replace(Replace(text, FenceHtml, <<>>), Fence, <<>>)
      t2 == Replace(t1, Doctype, <<>>)
      t3 == Replace(Replace(t2, HtmlOpen, <<>>), HtmlClose, <<>>)
  IN  Replace(Replace(t3, BodyOpen, <<>>), BodyClose, <<>>)

MarkerFree(s) == \A i \in 1..Len(Markers) : ~Contains(s, Markers[i])

----------------------------------------------------------------------------
(* The inputs the environment can supply *)

NameChars == {"D", " "}

Names == SeqsUpTo(NameChars, MaxNameLen)

(* A response of the shape the prompt asks the provider not to produce:
   a fenced, complete HTML document around the text "A" *)
FencedDocument ==
  FenceHtml \o Doctype \o HtmlOpen \o BodyOpen \o <<"A">> \o BodyClose
    \o HtmlClose \o Fence

RespFrags == {FencedDocument, <<"B">>}

Responses == {Concat(f) : f \in SeqsUpTo(RespFrags, MaxRespFrags)}

EditChars == {"A", "E"}

Edits == SeqsUpTo(EditChars, MaxEditLen)

SanFrags == {FenceHtml, Fence, <<BT>>, <<"h", "t", "m", "l">>, Doctype,
             HtmlOpen, HtmlClose, BodyOpen, BodyClose, <<"<", "h", "t">>,
             <<"m", "l", ">">>, <<"A">>}

SanInputs == {Concat(f) : f \in SeqsUpTo(SanFrags, MaxSanFrags)}

----------------------------------------------------------------------------
(* The visual editor and the download wrapper *)

NoFile == [file_name |-> <<>>, data |-> <<>>]

NoState == [k \in {} |-> <<>>]

Content == session_state["ebook_content"]

NameMissingNever(name) == FALSE

(* `not target_community` *)
NameMissing(name) == name = <<>>

HtmlHead ==
  <<"\n    <!DOCTYPE html>\n    <html>\n    <head>\n",
    "        <meta charset=\"UTF-8\">\n",
    "        <link href=\"[https://fonts.googleapis.com/css2?family=Merriweather:wght@300;400;700&display=swap](https://fonts.googleapis.com/css2?family=Merriweather:wght@300;400;700&display=swap)\" rel=\"stylesheet\">\n",
    "        <style>\n",
    "            body { font-family: 'Merriweather', serif; line-height: 1.6; padding: 40px; max-width: 900px; margin: auto; color: #333; }\n",
    "            h1, h2, h3 { font-family: 'Helvetica Neue', sans-serif; color: #2c3e50; margin-top: 30px; }\n",
    "            ul { margin-bottom: 20px; }\n",
    "            li { margin-bottom: 10px; }\n",
    "            .highlight { background-color: #f0f2f6; padding: 15px; border-left: 5px solid #2c3e50; margin: 20px 0; }\n",
    "        </style>\n    </head>\n    <body>\n        ">>

HtmlTail == <<"\n    </body>\n    </html>\n    ">>

FinalHtmlEmptyBody(body) == HtmlHead \o HtmlTail

(* final_html, with the editor's content as body *)
FinalHtml(body) == HtmlHead \o body \o HtmlTail

FileNameKeepSpaces(name) ==
  IF name # <<>> THEN name \o <<"_Guide.html">> ELSE <<"guide.html">>

(* file_name of st.download_button: str.replace(' ', '_') on single
   characters, then the suffix; "guide.html" when the input is empty *)
FileName(name) ==
  IF name # <<>>
  THEN [i \in 1..Len(name) |-> IF name[i] = " " THEN "_" ELSE name[i]]
         \o <<"_Guide.html">>
  ELSE <<"guide.html">>

(* st_quill(value=..., key="quill_editor"): the component's value when the
   widget registered under this key and these arguments has a state, the
   default (value) otherwise.  Streamlit identifies a component instance by
   its key together with its arguments, so a call with another value starts
   from the default again, and a call with the same value keeps what the
   user committed. *)
StQuill(registered, created_with, current, value) ==
  IF registered /\ created_with = value THEN current ELSE value

DownloadOfDocument(content, name, body) ==
  [file_name |-> FileName(name), data |-> FinalHtml(content)]

(* st.download_button(data=final_html, file_name=...) *)
Download(content, name, body) ==
  [file_name |-> FileName(name), data |-> FinalHtml(body)]

VisualEditorAlways(content, name, live, arg, val) ==
  LET edited_content == StQuill(live, arg, val, content)
  IN  /\ editor_shown' = TRUE
      /\ quill_live' = TRUE
      /\ quill_arg' = content
      /\ quill_val' = edited_content
      /\ dl' = Download(content, name, edited_content)

(* Lines 139-185: the editor and the download button are rendered when the
   stored content is non-empty; a widget that a complete run does not
   render loses its state *)
VisualEditor(content, name, live, arg, val) ==
  IF content # <<>>
  THEN LET edited_content == StQuill(live, arg, val, content)
       IN  /\ editor_shown' = TRUE
           /\ quill_live' = TRUE
           /\ quill_arg' = content
           /\ quill_val' = edited_content
           /\ dl' = Download(content, name, edited_content)
  ELSE /\ editor_shown' = FALSE
       /\ quill_live' = FALSE
       /\ quill_arg' = <<>>
       /\ quill_val' = <<>>
       /\ dl' = NoFile

----------------------------------------------------------------------------
(* The session *)

Init ==
  /\ has_key \in BOOLEAN
  /\ pc = "start"
  /\ target_community = <<>>
  /\ session_state = NoState
  /\ quill_live = FALSE
  /\ quill_arg = <<>>
  /\ quill_val = <<>>
  /\ notice = "none"
  /\ editor_shown = FALSE
  /\ dl = NoFile
  /\ provider = "not_called"
  /\ artifact = NoFile
  /\ last_event = "none"
  /\ raw = <<>>
  /\ gen_name = <<>>
  /\ last_edit = <<>>
  /\ edited_since_gen = FALSE
  /\ edited_ever = FALSE
  /\ san_in = <<>>
  /\ san_once = <<>>
  /\ san_twice = <<>>
  /\ san_n = 0

history == <<raw, gen_name, last_edit, edited_since_gen, edited_ever>>

LoadNoStop ==
  /\ pc = "start"
  /\ pc' = "idle"
  /\ notice' = IF has_key THEN "none" ELSE "config"
  /\ session_state' = [k \in {"ebook_content"} |-> <<>>]
  /\ VisualEditor(<<>>, target_community, quill_live, quill_arg, quill_val)
  /\ last_event' = "load"
  /\ UNCHANGED <<has_key, target_community, provider, artifact, history,
                 sanvars>>

(* The first run of the script in a session.  Lines 8-12: without the
   secret the run shows the error and stops; nothing below is rendered, so
   no later interaction exists.  Lines 107-108 initialise the content. *)
Load ==
  /\ pc = "start"
  /\ IF has_key
     THEN /\ pc' = "idle"
          /\ notice' = "none"
          /\ session_state' = [k \in {"ebook_content"} |-> <<>>]
          /\ VisualEditor(<<>>, target_community, quill_live, quill_arg,
                          quill_val)
     ELSE /\ pc' = "halted"
          /\ notice' = "config"
          /\ UNCHANGED <<session_state, quill_live, quill_arg, quill_val,
                         editor_shown, dl>>
  /\ last_event' = "load"
  /\ UNCHANGED <<has_key, target_community, provider, artifact, history,
                 sanvars>>

(* The user commits a new value of the text input (line 100); the script
   runs with generate_btn false. *)
SetName ==
  /\ pc = "idle"
  /\ \E name \in Names :
       /\ name # target_community
       /\ target_community' = name
       /\ VisualEditor(Content, name, quill_live, quill_arg, quill_val)
  /\ notice' = "none"
  /\ provider' = "not_called"
  /\ artifact' = NoFile
  /\ last_event' = "setname"
  /\ UNCHANGED <<has_key, pc, session_state, history, sanvars>>

(* The user clicks "Generate E-Book" (lines 111-121).  With an empty name
   the run warns and goes on to the editor block; otherwise it blocks in
   model.generate_content until the provider answers or raises.  No other
   user action is handled while the call is pending. *)
Generate ==
  /\ pc = "idle"
  /\ IF NameMissing(target_community)
     THEN /\ notice' = "warning"
          /\ provider' = "not_called"
          /\ VisualEditor(Content, target_community, quill_live, quill_arg,
                          quill_val)
          /\ UNCHANGED pc
     ELSE /\ pc' = "generating"
          /\ provider' = "pending"
          /\ notice' = "none"
          /\ UNCHANGED <<quill_live, quill_arg, quill_val, editor_shown, dl>>
  /\ artifact' = NoFile
  /\ last_event' = "generate"
  /\ UNCHANGED <<has_key, target_community, session_state, history, sanvars>>

(* The provider answers (lines 121-134): the cleaned text is stored and
   st.rerun() starts a fresh run, which renders the editor block.  The
   interrupted run does not drop widget states. *)
GenerateSuccess ==
  /\ pc = "generating"
  /\ \E response \in Responses :
       LET clean_text == Sanitize(response)
       IN  /\ session_state' =
                [session_state EXCEPT !["ebook_content"] = clean_text]
           /\ VisualEditor(clean_text, target_community, quill_live,
                           quill_arg, quill_val)
           /\ raw' = response
  /\ pc' = "idle"
  /\ provider' = "ok"
  /\ notice' = "none"
  /\ gen_name' = target_community
  /\ edited_since_gen' = FALSE
  /\ artifact' = NoFile
  /\ UNCHANGED <<has_key, target_community, last_event, last_edit,
                 edited_ever, sanvars>>

GenerateFailureClears ==
  /\ pc = "generating"
  /\ pc' = "idle"
  /\ provider' = "raised"
  /\ notice' = "error"
  /\ session_state' = [session_state EXCEPT !["ebook_content"] = <<>>]
  /\ VisualEditor(<<>>, target_community, quill_live, quill_arg, quill_val)
  /\ artifact' = NoFile
  /\ UNCHANGED <<has_key, target_community, last_event, history, sanvars>>

(* The provider call raises (lines 136-137): the error is shown and the run
   goes on to the editor block. *)
GenerateFailure ==
  /\ pc = "generating"
  /\ pc' = "idle"
  /\ provider' = "raised"
  /\ notice' = "error"
  /\ VisualEditor(Content, target_community, quill_live, quill_arg,
                  quill_val)
  /\ artifact' = NoFile
  /\ UNCHANGED <<has_key, target_community, session_state, last_event,
                 history, sanvars>>

(* The user commits new content in the editor (lines 146-151): the
   component's value changes and the script runs with generate_btn false. *)
Edit ==
  /\ pc = "idle"
  /\ editor_shown
  /\ \E typed \in Edits :
       /\ typed # quill_val
       /\ VisualEditor(Content, target_community, TRUE, quill_arg, typed)
       /\ last_edit' = typed
  /\ edited_since_gen' = TRUE
  /\ edited_ever' = TRUE
  /\ notice' = "none"
  /\ provider' = "not_called"
  /\ artifact' = NoFile
  /\ last_event' = "edit"
  /\ UNCHANGED <<has_key, pc, target_community, session_state, raw, gen_name,
                 sanvars>>

(* The user clicks the download button (lines 180-185): the browser saves
   the file the button was rendered with, and the script runs with
   generate_btn false. *)
Export ==
  /\ pc = "idle"
  /\ editor_shown
  /\ artifact' = dl
  /\ VisualEditor(Content, target_community, quill_live, quill_arg,
                  quill_val)
  /\ notice' = "none"
  /\ provider' = "not_called"
  /\ last_event' = "export"
  /\ UNCHANGED <<has_key, pc, target_community, session_state, history,
                 sanvars>>

Next ==
  \/ Load
  \/ SetName
  \/ Generate
  \/ GenerateSuccess
  \/ GenerateFailure
  \/ Edit
  \/ Export

Spec == Init /\ [][Next]_vars

----------------------------------------------------------------------------
(* The sanitizer on its own: an input text, cleaned once and once more *)

InitSan ==
  /\ has_key = TRUE
  /\ pc = "start"
  /\ target_community = <<>>
  /\ session_state = NoState
  /\ quill_live = FALSE
  /\ quill_arg = <<>>
  /\ quill_val = <<>>
  /\ notice = "none"
  /\ editor_shown = FALSE
  /\ dl = NoFile
  /\ provider = "not_called"
  /\ artifact = NoFile
  /\ last_event = "none"
  /\ raw = <<>>
  /\ gen_name = <<>>
  /\ last_edit = <<>>
  /\ edited_since_gen = FALSE
  /\ edited_ever = FALSE
  /\ san_in \in SanInputs
  /\ san_once = <<>>
  /\ san_twice = <<>>
  /\ san_n = 0

SanitizeOnce ==
  /\ san_n = 0
  /\ san_once' = Sanitize(san_in)
  /\ san_n' = 1
  /\ UNCHANGED <<san_in, san_twice, appvars>>

SanitizeAgain ==
  /\ san_n = 1
  /\ san_twice' = Sanitize(san_once)
  /\ san_n' = 2
  /\ UNCHANGED <<san_in, san_once, appvars>>

NextSan == SanitizeOnce \/ SanitizeAgain

SpecSan == InitSan /\ [][NextSan]_vars

----------------------------------------------------------------------------
(* Properties *)

Body(data) == SubSeq(data, Len(HtmlHead) + 1, Len(data) - Len(HtmlTail))

Whitespace == {" ", "\t", "\n"}

Phase ==
  IF pc = "generating" THEN "Generating"
  ELSE IF pc = "idle" THEN (IF editor_shown THEN "Ready" ELSE "Idle")
  ELSE pc

(* C1: a Generate request made while the name input is empty does not
   invoke the provider, shows the input warning and leaves the stored
   Document as it was. *)
C1_EmptyNameNoCall ==
  [][(pc = "idle" /\ last_event' = "generate" /\ target_community = <<>>)
       => /\ provider' = "not_called"
          /\ notice' = "warning"
          /\ pc' = "idle"
          /\ session_state' = session_state]_vars

C1_Witness ==
  /\ pc = "idle"
  /\ last_event = "generate"
  /\ notice = "warning"
  /\ target_community = <<>>
  /\ Content # <<>>

(* C2: when the provider call of a Generate request raises, an error is
   shown and the stored Document is the one from before the request, the
   empty one if no generation has succeeded yet. *)
C2_FailureKeepsDocument ==
  [][(pc = "generating" /\ provider' = "raised")
       => /\ notice' = "error"
          /\ session_state' = session_state
          /\ (gen_name = <<>> => session_state'["ebook_content"] = <<>>)]_vars

C2_Witness ==
  /\ provider = "raised"
  /\ notice = "error"
  /\ Content # <<>>

(* C3: an export made after the user replaced the content in the editor
   carries exactly the edited text as its body, and so differs from the
   export of the generated text whenever the two texts differ. *)
C3_EditThenExport ==
  (last_event = "export" /\ edited_since_gen)
    => /\ Contains(artifact.data, last_edit)
       /\ Body(artifact.data) = last_edit
       /\ (last_edit # Content => Body(artifact.data) # Content)

C3_Witness ==
  /\ last_event = "export"
  /\ edited_since_gen
  /\ last_edit # <<>>
  /\ last_edit # Content

(* C4 as stated: cleaning a text twice gives the same as cleaning it
   once, for every text. *)
C4_Original == san_n = 2 => san_twice = san_once

(* C4 amended: a text free of the seven markers is returned unchanged, and
   cleaning a second time changes nothing whenever the text cleaned once
   contains none of the markers. *)
C4_IdempotentWhenMarkerFree ==
  san_n = 2
    => /\ (MarkerFree(san_in) => san_once = san_in /\ san_twice = san_in)
       /\ (MarkerFree(san_once) => san_twice = san_once)

C4_Witness ==
  /\ san_n = 2
  /\ san_once # san_in
  /\ MarkerFree(san_once)
  /\ san_once # <<>>

(* C5 as stated: with no edits, the content of the exported file equals
   the sanitized generated text. *)
C5_Original ==
  (last_event = "export" /\ ~edited_ever) => artifact.data = Sanitize(raw)

(* C5 amended: with no edits, the exported file is the fixed page template
   whose body is the sanitized generated text. *)
C5_ExportWrapsGenerated ==
  (last_event = "export" /\ ~edited_ever)
    => /\ artifact.data = HtmlHead \o Sanitize(raw) \o HtmlTail
       /\ Body(artifact.data) = Content

C5_Witness ==
  /\ last_event = "export"
  /\ ~edited_ever
  /\ Sanitize(raw) # raw

(* C6: without the credential the session load ends in the configuration
   error: no Generate request can be made, the provider is not invoked and
   no Document is created. *)
C6_MissingKeyHalts ==
  ~has_key
    => /\ pc \in {"start", "halted"}
       /\ (pc = "halted" => notice = "config")
       /\ provider = "not_called"
       /\ session_state = NoState
       /\ ~editor_shown
       /\ dl = NoFile

C6_Witness ==
  /\ ~has_key
  /\ pc = "halted"
  /\ notice = "config"

(* C7 as stated: once the user has committed an edit, the Document held in
   the session state is the edited text. *)
C7_Original ==
  (pc = "idle" /\ edited_since_gen) => Content = last_edit

(* C8 as stated: after a successful generation the stored Document is the
   sanitized text of that response, and an export made before any further
   edit carries that Document, not earlier edits. *)
C8_Original ==
  (last_event = "export" /\ ~edited_since_gen)
    => /\ Content = Sanitize(raw)
       /\ Body(artifact.data) = Content

(* C9 as stated: the file name of every export is the name the Document
   was generated from, whitespace replaced by underscores, followed by the
   fixed suffix. *)
C9_Original ==
  last_event = "export"
    => artifact.file_name =
         [i \in 1..Len(gen_name) |->
            IF gen_name[i] \in Whitespace THEN "_" ELSE gen_name[i]]
           \o <<"_Guide.html">>

(* C9 amended: the file name of every export is taken from the name input
   as it is at the export: "guide.html" when the input is empty, otherwise
   the input with every space replaced by an underscore, followed by
   "_Guide.html". *)
C9_FileNameFromInput ==
  last_event = "export"
    => IF target_community = <<>>
       THEN artifact.file_name = <<"guide.html">>
       ELSE /\ Len(artifact.file_name) = Len(target_community) + 1
            /\ artifact.file_name[Len(artifact.file_name)] = "_Guide.html"
            /\ \A i \in 1..Len(target_community) :
                 artifact.file_name[i] =
                   IF target_community[i] = " " THEN "_"
                   ELSE target_community[i]

C9_Witness ==
  /\ last_event = "export"
  /\ gen_name # target_community
  /\ \E i \in 1..Len(target_community) : target_community[i] = " "

C10_Original_Step ==
  pc \in {"idle", "generating"}
       => \/ /\ Phase = "Idle"
             /\ Phase' = "Generating"
             /\ target_community # <<>>
          \/ /\ Phase = "Generating"
             /\ provider' = "ok"
             /\ Phase' = "Ready"
          \/ /\ Phase = "Generating"
             /\ provider' = "raised"
             /\ Phase' = "Idle"
             /\ notice' = "error"
          \/ /\ Phase = "Ready"
             /\ Phase' = "Ready"
             /\ last_event' \in {"edit", "export"}
             /\ session_state' = session_state
          \/ /\ Phase # "Generating"
             /\ Phase' = Phase
             /\ session_state' = session_state

(* C10 as stated: the only changes of state are Idle to Generating on a
   request with a name, Generating to Ready on success, Generating to Idle
   with an error on failure, and Ready to Ready on edit and export.  (A
   step that keeps both the state and the Document is not counted.) *)
C10_Original == [][C10_Original_Step]_vars

C10_Transitions_Step ==
  pc \in {"idle", "generating"}
       => \/ /\ Phase \in {"Idle", "Ready"}
             /\ Phase' = "Generating"
             /\ last_event' = "generate"
             /\ target_community # <<>>
             /\ session_state' = session_state
          \/ /\ Phase = "Generating"
             /\ provider' = "ok"
             /\ notice' = "none"
             /\ session_state'["ebook_content"] = Sanitize(raw')
             /\ Phase' = IF Sanitize(raw') # <<>> THEN "Ready" ELSE "Idle"
          \/ /\ Phase = "Generating"
             /\ provider' = "raised"
             /\ notice' = "error"
             /\ session_state' = session_state
             /\ Phase' = IF Content # <<>> THEN "Ready" ELSE "Idle"
          \/ /\ Phase = "Ready"
             /\ Phase' = "Ready"
             /\ last_event' \in {"edit", "export", "setname", "generate"}
             /\ session_state' = session_state
          \/ /\ Phase = "Idle"
             /\ Phase' = "Idle"
             /\ last_event' \in {"setname", "generate"}
             /\ session_state' = session_state

(* C10 amended: a request with a name leads from Idle or Ready to
   Generating; success leads to Ready when the sanitized text is not empty
   and to Idle when it is; failure shows an error, keeps the Document and
   leads to Ready when a Document exists and to Idle otherwise; every other
   step (edit, export, name change, request without a name) keeps the state
   and the Document. *)
C10_Transitions == [][C10_Transitions_Step]_vars

C10_Witness ==
  /\ pc = "idle"
  /\ provider = "raised"
  /\ notice = "error"
  /\ editor_shown

====
